---- MODULE Spec2Model ----
(***************************************************************************)
(* Model of the real-time frame pipeline of src/jalinga.py:                *)
(*   - ScreenCaptureWorker  (window / monitor capture thread)              *)
(*   - PainterApp.start_screen_sharing / stop_screen_sharing /             *)
(*     handle_screen_capture_error (consumer side of a capture session)    *)
(*   - VideoWorker          (video decode thread)                          *)
(*   - UploadedVideo        (video session: seek cooldown, A/V sync)       *)
(* Threads are modelled as program counters; every shared field that is    *)
(* written by one thread and read by another is read/written in a step of  *)
(* its own where the order matters.                                        *)
(***************************************************************************)
EXTENDS Integers, Sequences, FiniteSets, TLC

VARIABLES
    \* ---- capture session (PainterApp + ScreenCaptureWorker) ----
    sc_worker,        \* PainterApp.screen_capture_worker: "none", "window", "monitor"
    sc_running,       \* ScreenCaptureWorker.running
    sc_capturing,     \* ScreenCaptureWorker.capturing
    last_error_time,  \* ScreenCaptureWorker.last_error_time (ticks)
    cpc,              \* position of the capture thread
    c_emit,           \* capture thread inside emit_error: [t, msg, next]
    mpc,              \* position of the consumer thread inside stop_screen_sharing
    m_emit_time,      \* consumer thread inside emit_error: current_time read
    connected,        \* error_occurred / frame_ready still connected to the consumer
    emitted,          \* error_occurred emissions of the current worker: <<time, message>>
    err_queue,        \* queued error_occurred events not yet handled by the consumer
    delivered,        \* messages handle_screen_capture_error has received
    window_alive,     \* win32gui.IsWindow(window_id)
    ctime,            \* time.time() (ticks)
    attempts,         \* capture attempts made by the current worker
    lost_seen,        \* the liveness check of the current worker has failed
    last_attempt,     \* acquisitions / releases of the last capture_window_frame call
    sessions,         \* number of start_screen_sharing calls so far
    m_start,          \* start_screen_sharing is stopping the old session: the kind to create
    fail_streak       \* capture attempts of the current worker that raised, in a row

cvars == <<sc_worker, sc_running, sc_capturing, last_error_time, cpc, c_emit, mpc,
           m_emit_time, connected, emitted, err_queue, delivered, window_alive, ctime,
           attempts, lost_seen, last_attempt, sessions, m_start, fail_streak>>

VARIABLES
    \* ---- video worker (VideoWorker) and its thread ----
    vw_running,       \* VideoWorker.running
    vw_playing,       \* VideoWorker.playing
    current_frame,    \* VideoWorker.current_frame
    seek_requested,   \* VideoWorker.seek_requested
    seek_frame,       \* VideoWorker.seek_frame
    cap_pos,          \* cv2 CAP_PROP_POS_FRAMES: index of the frame the next read decodes
    error_count,      \* process_video's local error_count
    vpc,              \* position of the worker thread inside process_video
    runs_queued,      \* queued invocations of process_video (second started connection)
    frame_buffer,     \* VideoWorker.frame_buffer (queue.Queue(maxsize=MAX_FRAME_BUFFER_SIZE))
    pending,          \* frame_ready/position_changed events queued for the consumer
    received,         \* kinds of worker signals the consumer has received
    mseek,            \* consumer thread inside a worker call: "idle", "w2", "joining", "stopped"
    m_seek_arg,       \* argument of the VideoWorker.seek call in progress or last issued
    decode_lock,      \* VideoWorker.decode_lock is held
    vw_size,          \* VideoWorker.size, the scaling target
    \* history of the video worker, read by the properties only
    seeks_issued,     \* number of VideoWorker.seek calls issued
    handler_out,      \* events emitted by the seek handler run in progress
    cadence_since     \* a cadence step has run since the last VideoWorker.seek call

vvars == <<vw_running, vw_playing, current_frame, seek_requested, seek_frame, cap_pos,
           error_count, vpc, runs_queued, frame_buffer, pending, received, mseek,
           m_seek_arg, decode_lock, vw_size, seeks_issued, handler_out, cadence_since>>

VARIABLES
    \* ---- video session (UploadedVideo), all of it on the consumer thread ----
    s_playing,             \* UploadedVideo.playing
    s_current_frame,       \* UploadedVideo.current_frame
    slider_being_dragged,  \* UploadedVideo.slider_being_dragged
    slider_value,          \* timeline.slider.value()
    last_seek_time,        \* UploadedVideo.last_seek_time (ms)
    has_audio,             \* UploadedVideo.media_player is not None
    media_playing,         \* the QMediaPlayer is playing
    aborted,               \* an exception left a slot of the session (PyQt6 aborts the process)
    now,                   \* time.time() * 1000 (ms)
    \* history of the session, read by the properties only
    seek_log,              \* UploadedVideo.seek calls: <<time, "exec" | "drop">>
    report                 \* the audio position report the last step handled: [a, d, dragging, seeks]

VARIABLES
    \* ---- opening a video file ----
    reported_fps,          \* cap.get(cv2.CAP_PROP_FPS) of the file
    worker_fps,            \* VideoWorker.fps (0: not opened yet)
    session_fps            \* UploadedVideo.fps (0: not opened yet)

ovars == <<reported_fps, worker_fps, session_fps>>

VARIABLES
    \* ---- pacing of the cadence steps of a playing worker ----
    perf_counter,          \* time.perf_counter() (ticks)
    next_frame_time,       \* VideoWorker.next_frame_time (ticks)
    \* history of the pacing, read by the properties only
    pace_start,            \* the time the pacing was last reset at (play, seek)
    paced_steps            \* successful cadence steps since then

tvars == <<perf_counter, next_frame_time, pace_start, paced_steps>>

VARIABLES
    \* ---- a session seek followed by the audio report of the position it set ----
    rt_fps,                \* UploadedVideo.fps of the file
    rt_frame_count,        \* UploadedVideo.frame_count of the file
    rt_duration,           \* media_player.duration() of the file (ms)
    rt_frame,              \* the frame UploadedVideo.seek was called with
    rt_position,           \* the position seek passed to media_player.setPosition (-1: none yet)
    rt_current_frame,      \* UploadedVideo.current_frame after the seek
    rt_seeks               \* worker.seek calls made by the report of rt_position (-1: none yet)

rvars == <<rt_fps, rt_frame_count, rt_duration, rt_frame, rt_position, rt_current_frame,
           rt_seeks>>

VARIABLES
    \* ---- the video sessions of the canvas and PainterApp.closeEvent ----
    uploaded_items,        \* Canvas.uploaded_items: the video sessions on the canvas
    removed,               \* the sessions Canvas.cleanup has removed, as it left them
    kpc,                   \* position of the consumer thread inside closeEvent
    k_index,               \* closeEvent's own loop: index of the next item
    cleanup_done           \* PainterApp.cleanup_done

kvars == <<uploaded_items, removed, kpc, k_index, cleanup_done>>

\* the components no step of the capture session, the worker or the session writes
xvars == <<ovars, tvars, rvars, kvars>>

svars == <<s_playing, s_current_frame, slider_being_dragged, slider_value, last_seek_time,
           has_audio, media_playing, aborted, now, seek_log, report>>

vars == <<cvars, vvars, svars, xvars>>

\* the variables a capture / video / session step leaves alone
noncvars == <<vvars, svars, xvars>>
nonvvars == <<cvars, svars, xvars>>
\* worker fields the session's slots do not write
vrest == <<decode_lock, vw_size, vw_running, current_frame, cap_pos, error_count, vpc, runs_queued, frame_buffer,
           pending, received, mseek, seeks_issued, handler_out, cadence_since>>

-----------------------------------------------------------------------------
\* Bounds of the model
MaxSessions == 1      \* start_screen_sharing calls explored
MaxAttempts == 4      \* capture attempts explored per worker
MaxCTicks == 3        \* clock ticks explored after start
MaxRestarts == 1      \* start_screen_sharing calls explored while a session is open
TicksPerSecond == 2   \* resolution of the modelled time.time()

TotalFrames == 2     \* frames of the opened video (VideoWorker.total_frames)
MaxQueued == 1        \* queued events explored under SpecVideo
MaxPending == 6       \* queued events explored under SpecChannel
MaxSeeks == 2         \* VideoWorker.seek calls explored

MaxSTicks == 5        \* clock ticks explored in a session
TickMs == 10          \* milliseconds per session clock tick
MaxLog == 3           \* UploadedVideo.seek calls explored
MaxStale == 2         \* frame events left queued by a consumer that lags during a seek
MaxReportedFps == 125 \* highest frame rate a file reports
ReportStepMs == 22    \* spacing of the audio positions explored, ms
PeriodTicks == 2      \* VideoWorker.frame_duration, in ticks of perf_counter
MaxClock == 6         \* ticks of perf_counter explored
MaxRate == 30         \* highest frame rate of the files sought in
MaxFrames == 3        \* highest frame count of the files sought in
MaxVideos == 3        \* video sessions added to the canvas

\* Program constants
error_cooldown == 1   \* seconds
seek_cooldown == 50   \* milliseconds
seek_threshold == 1   \* frames
fps == 30             \* UploadedVideo.fps when the file reports no rate
FALLBACK_FPS == 30    \* VideoWorker.fps when the reported rate fails the sanity check
MAX_SANE_FPS == 120   \* the highest reported rate VideoWorker accepts
MAX_FRAME_BUFFER_SIZE == 5
MAX_ERRORS == 3

CooldownTicks == error_cooldown * TicksPerSecond
\* time.time() is seconds since the epoch: far more than one cooldown after
\* last_error_time = 0, so the first emit_error of a worker always passes.
StartCTime == CooldownTicks
MaxCTime == StartCTime + MaxCTicks

-----------------------------------------------------------------------------
\* capture_window_frame: the native resources of one attempt.
\* Steps of the try body, each of which may raise:
\*   0 GetWindowRect          1 GetWindowDC (hwndDC)     2 CreateDCFromHandle (mfcDC)
\*   3 CreateCompatibleDC (saveDC)   4 CreateBitmap() (binds saveBitMap)
\*   5 CreateCompatibleBitmap (the bitmap handle)   6 SelectObject
\*   7 PrintWindow .. QPixmap.fromImage
NoFail == 8
FailPoints == 0..NoFail

AcqOrder == <<"hwndDC", "mfcDC", "saveDC", "saveBitMap">>

\* the step whose success acquires the native resource r
AcqStep(r) ==
    CASE r = "hwndDC" -> 1
      [] r = "mfcDC" -> 2
      [] r = "saveDC" -> 3
      [] r = "saveBitMap" -> 5

\* the step whose success binds the local variable r
BindStep(r) ==
    CASE r = "hwndDC" -> 1
      [] r = "mfcDC" -> 2
      [] r = "saveDC" -> 3
      [] r = "saveBitMap" -> 4

\* the order of the release calls in the finally block
ReleaseOrder == <<"saveDC", "mfcDC", "hwndDC", "saveBitMap">>

\* step s completed successfully in this attempt
StepDone(size_ok, failAt, s) ==
    /\ failAt # 0
    /\ size_ok
    /\ s < failAt

Acquired(size_ok, failAt) ==
    SelectSeq(AcqOrder, LAMBDA r : StepDone(size_ok, failAt, AcqStep(r)))

RECURSIVE ReleaseFrom(_, _, _)
\* The finally block from its i-th release call on: a call on an unbound local
\* raises UnboundLocalError and the remaining calls are skipped; DeleteObject
\* on a bitmap object that never got its handle releases nothing.
ReleaseFrom(size_ok, failAt, i) ==
    IF i > Len(ReleaseOrder) THEN <<>>
    ELSE LET r == ReleaseOrder[i] IN
         IF ~StepDone(size_ok, failAt, BindStep(r)) THEN <<>>
         ELSE IF ~StepDone(size_ok, failAt, AcqStep(r)) THEN <<>>
         ELSE <<r>> \o ReleaseFrom(size_ok, failAt, i + 1)

Released(size_ok, failAt) == ReleaseFrom(size_ok, failAt, 1)

\* the finally block raised (a release call hit an unbound local or a null handle)
FinallyRaises(size_ok, failAt) ==
    \E i \in 1..Len(ReleaseOrder) :
        \/ ~StepDone(size_ok, failAt, BindStep(ReleaseOrder[i]))
        \/ ~StepDone(size_ok, failAt, AcqStep(ReleaseOrder[i]))

\* how the call ends: "pixmap", "none" (return None) or "raise"
AttemptExit(size_ok, failAt, print_ok) ==
    IF failAt # NoFail \/ FinallyRaises(size_ok, failAt) THEN "raise"
    ELSE IF print_ok THEN "pixmap"
    ELSE "none"

capture_window_frame(size_ok, failAt, print_ok) ==
    [acquired |-> Acquired(size_ok, failAt),
     released |-> Released(size_ok, failAt),
     exit     |-> AttemptExit(size_ok, failAt, print_ok)]

NoAttempt == [acquired |-> <<>>, released |-> <<>>, exit |-> "never"]

-----------------------------------------------------------------------------
\* Messages of error_occurred
MsgWindowLost == "Window no longer exists"
MsgCaptureError == "Screen capture error"
MsgMonitorError == "Monitor capture error"
MsgStopped == "Screen capture worker stopped successfully."

NoEmit == [t |-> 0, msg |-> "", next |-> ""]

InitCapture ==
    /\ sc_worker = "none"
    /\ sc_running = FALSE
    /\ sc_capturing = FALSE
    /\ last_error_time = 0
    /\ cpc = "not_started"
    /\ c_emit = NoEmit
    /\ mpc = "idle"
    /\ m_emit_time = 0
    /\ connected = FALSE
    /\ emitted = <<>>
    /\ err_queue = <<>>
    /\ delivered = {}
    /\ window_alive = TRUE
    /\ ctime = StartCTime
    /\ attempts = 0
    /\ lost_seen = FALSE
    /\ last_attempt = NoAttempt
    /\ sessions = 0
    /\ m_start = "none"
    /\ fail_streak = 0

\* error_occurred.emit(msg) by the thread `who`: a direct call of the handler when
\* emitted by the consumer thread itself, a queued event when emitted by the
\* capture thread; nothing reaches the consumer once the signal is disconnected.
EmitSignal(msg, who) ==
    /\ emitted' = Append(emitted, <<ctime, msg>>)
    /\ IF ~connected THEN UNCHANGED <<err_queue, delivered>>
       ELSE IF who = "consumer"
            THEN /\ delivered' = delivered \cup {msg}
                 /\ UNCHANGED err_queue
            ELSE /\ err_queue' = Append(err_queue, msg)
                 /\ UNCHANGED delivered

\* emit_error, first half: read the clock and compare with last_error_time
EmitErrorPasses(t) == t - last_error_time >= CooldownTicks

-----------------------------------------------------------------------------
\* PainterApp.start_screen_sharing (no capture session open): create the worker
\* (running, not capturing), connect its signals, start its thread.
StartScreenSharing(kind) ==
    /\ sc_worker = "none"
    /\ mpc = "idle"
    /\ sessions < MaxSessions
    /\ sessions' = sessions + 1
    /\ sc_worker' = kind
    /\ sc_running' = TRUE
    /\ sc_capturing' = FALSE
    /\ mpc' = "starting"
    /\ last_error_time' = 0
    /\ cpc' = "started"
    /\ c_emit' = NoEmit
    /\ connected' = TRUE
    /\ emitted' = <<>>
    /\ err_queue' = <<>>
    /\ attempts' = 0
    /\ lost_seen' = FALSE
    /\ last_attempt' = NoAttempt
    /\ window_alive' = TRUE
    /\ delivered' = {}
    /\ fail_streak' = 0
    /\ UNCHANGED <<m_emit_time, ctime, m_start>>
    /\ UNCHANGED noncvars

\* ... start_screen_sharing goes on: self.screen_capture_worker.start_capture()
StartCapture ==
    /\ mpc = "starting"
    /\ sc_capturing' = TRUE
    /\ mpc' = "idle"
    /\ UNCHANGED <<sc_worker, sc_running, last_error_time, cpc, c_emit, m_emit_time,
                   connected, emitted, err_queue, delivered, window_alive, ctime, attempts,
                   lost_seen, last_attempt, sessions>>
    /\ UNCHANGED <<m_start, fail_streak>>
    /\ UNCHANGED noncvars

\* start_screen_sharing creating the new worker over a session that is open,
\* without stopping it
RestartScreenSharing_NoStop(kind) ==
    /\ sc_worker # "none"
    /\ mpc = "idle"
    /\ sessions < MaxSessions + MaxRestarts
    /\ sessions' = sessions + 1
    /\ sc_worker' = kind
    /\ sc_running' = TRUE
    /\ sc_capturing' = FALSE
    /\ mpc' = "starting"
    /\ last_error_time' = 0
    /\ cpc' = "started"
    /\ c_emit' = NoEmit
    /\ connected' = TRUE
    /\ emitted' = <<>>
    /\ err_queue' = <<>>
    /\ attempts' = 0
    /\ lost_seen' = FALSE
    /\ last_attempt' = NoAttempt
    /\ window_alive' = TRUE
    /\ delivered' = {}
    /\ fail_streak' = 0
    /\ UNCHANGED <<m_emit_time, ctime, m_start>>
    /\ UNCHANGED noncvars

\* PainterApp.start_screen_sharing while a capture session is open:
\* `if self.screen_capture_worker: self.stop_screen_sharing()` comes first
RestartScreenSharing(kind) ==
    /\ sc_worker # "none"
    /\ mpc = "idle"
    /\ sessions < MaxSessions + MaxRestarts
    /\ sessions' = sessions + 1
    /\ m_start' = kind
    /\ mpc' = "stop_begin"
    /\ UNCHANGED <<sc_worker, sc_running, sc_capturing, last_error_time, cpc, c_emit,
                   m_emit_time, connected, emitted, err_queue, delivered, window_alive,
                   ctime, attempts, lost_seen, last_attempt, fail_streak>>
    /\ UNCHANGED noncvars

\* ... stop_screen_sharing has returned: start_screen_sharing creates the new
\* worker and its thread, connects the signals and starts the thread
CreateWorker ==
    /\ mpc = "create"
    /\ sc_worker' = m_start
    /\ m_start' = "none"
    /\ sc_running' = TRUE
    /\ sc_capturing' = FALSE
    /\ mpc' = "starting"
    /\ last_error_time' = 0
    /\ cpc' = "started"
    /\ c_emit' = NoEmit
    /\ connected' = TRUE
    /\ emitted' = <<>>
    /\ err_queue' = <<>>
    /\ attempts' = 0
    /\ lost_seen' = FALSE
    /\ last_attempt' = NoAttempt
    /\ window_alive' = TRUE
    /\ delivered' = {}
    /\ fail_streak' = 0
    /\ UNCHANGED <<m_emit_time, ctime, sessions>>
    /\ UNCHANGED noncvars

\* capture_screen entered: SetProcessDPIAware (window) or mss.mss() (monitor)
\* either succeeds and the loop starts, or raises into capture_screen's handler.
CaptureScreenEnter(setup_ok) ==
    /\ cpc = "started"
    /\ IF setup_ok
       THEN /\ cpc' = "top"
            /\ UNCHANGED c_emit
       ELSE /\ cpc' = "emit_check"
            /\ c_emit' = [t |-> 0, msg |-> MsgCaptureError, next |-> "self_stop"]
    /\ UNCHANGED <<sc_worker, sc_running, sc_capturing, last_error_time, mpc, m_emit_time,
                   connected, emitted, err_queue, delivered, window_alive, ctime, attempts,
                   lost_seen, last_attempt, sessions>>
    /\ UNCHANGED <<m_start, fail_streak>>
    /\ UNCHANGED noncvars

\* `while self.running:` and `if not self.capturing: sleep; continue`
LoopTop ==
    /\ cpc = "top"
    /\ IF ~sc_running THEN cpc' = "done"
       ELSE IF ~sc_capturing THEN cpc' = "top"
       ELSE cpc' = IF sc_worker = "window" THEN "liveness" ELSE "grab"
    /\ UNCHANGED <<sc_worker, sc_running, sc_capturing, last_error_time, c_emit, mpc,
                   m_emit_time, connected, emitted, err_queue, delivered, window_alive,
                   ctime, attempts, lost_seen, last_attempt, sessions>>
    /\ UNCHANGED <<m_start, fail_streak>>
    /\ UNCHANGED noncvars

\* Liveness without its `break`: the loop goes on after the error
Liveness_NoBreak ==
    /\ cpc = "liveness"
    /\ IF window_alive
       THEN /\ cpc' = "attempt"
            /\ UNCHANGED <<c_emit, lost_seen>>
       ELSE /\ cpc' = "emit_check"
            /\ c_emit' = [t |-> 0, msg |-> MsgWindowLost, next |-> "top"]
            /\ lost_seen' = TRUE
    /\ UNCHANGED <<sc_worker, sc_running, sc_capturing, last_error_time, mpc, m_emit_time,
                   connected, emitted, err_queue, delivered, window_alive, ctime, attempts,
                   last_attempt, sessions>>
    /\ UNCHANGED <<m_start, fail_streak>>
    /\ UNCHANGED noncvars

\* `if not win32gui.IsWindow(self.window_id): self.emit_error(...); break`
Liveness ==
    /\ cpc = "liveness"
    /\ IF window_alive
       THEN /\ cpc' = "attempt"
            /\ UNCHANGED <<c_emit, lost_seen>>
       ELSE /\ cpc' = "emit_check"
            /\ c_emit' = [t |-> 0, msg |-> MsgWindowLost, next |-> "done"]
            /\ lost_seen' = TRUE
    /\ UNCHANGED <<sc_worker, sc_running, sc_capturing, last_error_time, mpc, m_emit_time,
                   connected, emitted, err_queue, delivered, window_alive, ctime, attempts,
                   last_attempt, sessions>>
    /\ UNCHANGED <<m_start, fail_streak>>
    /\ UNCHANGED noncvars

\* one call of capture_window_frame inside the loop's try/except: a pixmap is
\* emitted, None is ignored, an exception is printed; the loop goes on.
WindowAttempt(size_ok, failAt, print_ok) ==
    /\ cpc = "attempt"
    /\ attempts < MaxAttempts
    /\ attempts' = attempts + 1
    /\ last_attempt' = capture_window_frame(size_ok, failAt, print_ok)
    /\ fail_streak' = IF AttemptExit(size_ok, failAt, print_ok) = "raise"
                      THEN fail_streak + 1 ELSE 0
    /\ cpc' = "top"
    /\ UNCHANGED <<sc_worker, sc_running, sc_capturing, last_error_time, c_emit, mpc,
                   m_emit_time, connected, emitted, err_queue, delivered, window_alive,
                   ctime, lost_seen, sessions>>
    /\ UNCHANGED m_start
    /\ UNCHANGED noncvars

\* one iteration of capture_monitor_loop: sct.grab and the conversion either
\* succeed, or raise into the loop's handler, which emits error_occurred itself.
MonitorGrab(grab_ok) ==
    /\ cpc = "grab"
    /\ attempts < MaxAttempts
    /\ attempts' = attempts + 1
    /\ IF grab_ok
       THEN /\ cpc' = "top"
            /\ UNCHANGED <<emitted, err_queue, delivered>>
       ELSE /\ cpc' = "done"
            /\ EmitSignal(MsgMonitorError, "capture")
    /\ fail_streak' = IF grab_ok THEN 0 ELSE fail_streak + 1
    /\ UNCHANGED <<sc_worker, sc_running, sc_capturing, last_error_time, c_emit, mpc,
                   m_emit_time, connected, window_alive, ctime, lost_seen, last_attempt, sessions>>
    /\ UNCHANGED m_start
    /\ UNCHANGED noncvars

\* emit_error in the capture thread, first half
CaptureEmitCheck ==
    /\ cpc = "emit_check"
    /\ IF EmitErrorPasses(ctime)
       THEN /\ cpc' = "emit_do"
            /\ c_emit' = [c_emit EXCEPT !.t = ctime]
       ELSE /\ cpc' = c_emit.next
            /\ c_emit' = NoEmit
    /\ UNCHANGED <<sc_worker, sc_running, sc_capturing, last_error_time, mpc, m_emit_time,
                   connected, emitted, err_queue, delivered, window_alive, ctime, attempts,
                   lost_seen, last_attempt, sessions>>
    /\ UNCHANGED <<m_start, fail_streak>>
    /\ UNCHANGED noncvars

\* emit_error in the capture thread, second half
CaptureEmitDo ==
    /\ cpc = "emit_do"
    /\ EmitSignal(c_emit.msg, "capture")
    /\ last_error_time' = c_emit.t
    /\ cpc' = c_emit.next
    /\ c_emit' = NoEmit
    /\ UNCHANGED <<sc_worker, sc_running, sc_capturing, mpc, m_emit_time, connected,
                   window_alive, ctime, attempts, lost_seen, last_attempt,
                   sessions>>
    /\ UNCHANGED <<m_start, fail_streak>>
    /\ UNCHANGED noncvars

\* self.stop() called by capture_screen's handler in the capture thread
CaptureSelfStop ==
    /\ cpc = "self_stop"
    /\ sc_running' = FALSE
    /\ sc_capturing' = FALSE
    /\ cpc' = "emit_check"
    /\ c_emit' = [t |-> 0, msg |-> MsgStopped, next |-> "done"]
    /\ UNCHANGED <<sc_worker, last_error_time, mpc, m_emit_time, connected, emitted,
                   err_queue, delivered, window_alive, ctime, attempts, lost_seen,
                   last_attempt, sessions>>
    /\ UNCHANGED <<m_start, fail_streak>>
    /\ UNCHANGED noncvars

-----------------------------------------------------------------------------
\* Consumer thread: PainterApp.stop_screen_sharing, step by step.

\* stop_capture() and the two assignments of stop()
StopBegin ==
    /\ mpc = "stop_begin"
    /\ sc_running' = FALSE
    /\ sc_capturing' = FALSE
    /\ mpc' = "emit_check"
    /\ UNCHANGED <<sc_worker, last_error_time, cpc, c_emit, m_emit_time, connected,
                   emitted, err_queue, delivered, window_alive, ctime, attempts,
                   lost_seen, last_attempt, sessions>>
    /\ UNCHANGED <<m_start, fail_streak>>
    /\ UNCHANGED noncvars

\* the user stops sharing (ScreenShareDialog, closeEvent)
StopScreenSharing ==
    /\ mpc = "idle"
    /\ sc_worker # "none"
    /\ mpc' = "stop_begin"
    /\ UNCHANGED <<sc_worker, sc_running, sc_capturing, last_error_time, cpc, c_emit,
                   m_emit_time, connected, emitted, err_queue, delivered, window_alive,
                   ctime, attempts, lost_seen, last_attempt, sessions>>
    /\ UNCHANGED <<m_start, fail_streak>>
    /\ UNCHANGED noncvars

\* emit_error called by stop() in the consumer thread, first half
StopEmitCheck ==
    /\ mpc = "emit_check"
    /\ IF EmitErrorPasses(ctime)
       THEN /\ mpc' = "emit_do"
            /\ m_emit_time' = ctime
       ELSE /\ mpc' = "disconnect"
            /\ UNCHANGED m_emit_time
    /\ UNCHANGED <<sc_worker, sc_running, sc_capturing, last_error_time, cpc, c_emit,
                   connected, emitted, err_queue, delivered, window_alive, ctime, attempts,
                   lost_seen, last_attempt, sessions>>
    /\ UNCHANGED <<m_start, fail_streak>>
    /\ UNCHANGED noncvars

\* emit_error called by stop() in the consumer thread, second half
StopEmitDo ==
    /\ mpc = "emit_do"
    /\ EmitSignal(MsgStopped, "consumer")
    /\ last_error_time' = m_emit_time
    /\ mpc' = "disconnect"
    /\ UNCHANGED <<sc_worker, sc_running, sc_capturing, cpc, c_emit, m_emit_time,
                   connected, window_alive, ctime, attempts, lost_seen, last_attempt, sessions>>
    /\ UNCHANGED <<m_start, fail_streak>>
    /\ UNCHANGED noncvars

\* frame_ready.disconnect(), error_occurred.disconnect(): events still queued
\* for the disconnected slots are discarded with them
StopDisconnect ==
    /\ mpc = "disconnect"
    /\ connected' = FALSE
    /\ err_queue' = <<>>
    /\ mpc' = "join"
    /\ UNCHANGED <<sc_worker, sc_running, sc_capturing, last_error_time, cpc, c_emit,
                   m_emit_time, emitted, delivered, window_alive, ctime, attempts,
                   lost_seen, last_attempt, sessions>>
    /\ UNCHANGED <<m_start, fail_streak>>
    /\ UNCHANGED noncvars

\* thread.quit(); thread.wait(2000): the thread has left capture_screen and ends;
\* then the references are cleared and stop_screen_sharing returns, to
\* start_screen_sharing when that was its caller
StopJoin ==
    /\ mpc = "join"
    /\ cpc = "done"
    /\ cpc' = "not_started"
    /\ sc_worker' = "none"
    /\ mpc' = IF m_start = "none" THEN "idle" ELSE "create"
    /\ UNCHANGED <<sc_running, sc_capturing, last_error_time, c_emit, m_emit_time,
                   connected, emitted, err_queue, delivered, window_alive, ctime, attempts,
                   lost_seen, last_attempt, sessions>>
    /\ UNCHANGED <<m_start, fail_streak>>
    /\ UNCHANGED noncvars

\* thread.wait(2000) timed out: thread.terminate(); thread.wait(); then the
\* references are cleared
StopTerminate ==
    /\ mpc = "join"
    /\ cpc # "done"
    /\ cpc' = "not_started"
    /\ c_emit' = NoEmit
    /\ sc_worker' = "none"
    /\ mpc' = IF m_start = "none" THEN "idle" ELSE "create"
    /\ UNCHANGED <<sc_running, sc_capturing, last_error_time, m_emit_time, connected,
                   emitted, err_queue, delivered, window_alive, ctime, attempts,
                   lost_seen, last_attempt, sessions>>
    /\ UNCHANGED <<m_start, fail_streak>>
    /\ UNCHANGED noncvars

\* PainterApp.handle_screen_capture_error for a queued error_occurred event
HandleScreenCaptureError ==
    /\ mpc = "idle"
    /\ err_queue # <<>>
    /\ delivered' = delivered \cup {Head(err_queue)}
    /\ err_queue' = Tail(err_queue)
    /\ mpc' = IF Head(err_queue) = MsgWindowLost /\ sc_worker # "none"
              THEN "stop_begin" ELSE "idle"
    /\ UNCHANGED <<sc_worker, sc_running, sc_capturing, last_error_time, cpc, c_emit,
                   m_emit_time, connected, emitted, window_alive, ctime, attempts,
                   lost_seen, last_attempt, sessions>>
    /\ UNCHANGED <<m_start, fail_streak>>
    /\ UNCHANGED noncvars

\* Environment: the target window is closed
CloseWindow ==
    /\ sc_worker = "window"
    /\ window_alive
    /\ window_alive' = FALSE
    /\ UNCHANGED <<sc_worker, sc_running, sc_capturing, last_error_time, cpc, c_emit, mpc,
                   m_emit_time, connected, emitted, err_queue, delivered, ctime, attempts,
                   lost_seen, last_attempt, sessions>>
    /\ UNCHANGED <<m_start, fail_streak>>
    /\ UNCHANGED noncvars

\* Environment: time.time() advances
CaptureTick ==
    /\ ctime < MaxCTime
    /\ ctime' = ctime + 1
    /\ UNCHANGED <<sc_worker, sc_running, sc_capturing, last_error_time, cpc, c_emit, mpc,
                   m_emit_time, connected, emitted, err_queue, delivered, window_alive,
                   attempts, lost_seen, last_attempt, sessions>>
    /\ UNCHANGED <<m_start, fail_streak>>
    /\ UNCHANGED noncvars

NextCapture ==
    \/ \E kind \in {"window", "monitor"} : StartScreenSharing(kind)
    \/ StartCapture
    \/ \E setup_ok \in BOOLEAN : CaptureScreenEnter(setup_ok)
    \/ LoopTop
    \/ Liveness
    \/ \E size_ok \in BOOLEAN, failAt \in FailPoints, print_ok \in BOOLEAN :
           WindowAttempt(size_ok, failAt, print_ok)
    \/ \E grab_ok \in BOOLEAN : MonitorGrab(grab_ok)
    \/ CaptureEmitCheck
    \/ CaptureEmitDo
    \/ CaptureSelfStop
    \/ StopScreenSharing
    \/ StopBegin
    \/ StopEmitCheck
    \/ StopEmitDo
    \/ StopDisconnect
    \/ StopJoin
    \/ StopTerminate
    \/ HandleScreenCaptureError
    \/ CloseWindow
    \/ CaptureTick

\* starting a capture session over one that is open
NextRestart ==
    \/ \E kind \in {"window", "monitor"} : StartScreenSharing(kind)
    \/ \E kind \in {"window", "monitor"} : RestartScreenSharing(kind)
    \/ CreateWorker
    \/ StartCapture
    \/ \E setup_ok \in BOOLEAN : CaptureScreenEnter(setup_ok)
    \/ LoopTop
    \/ Liveness
    \/ \E failAt \in {1, NoFail} : WindowAttempt(TRUE, failAt, TRUE)
    \/ \E grab_ok \in BOOLEAN : MonitorGrab(grab_ok)
    \/ CaptureEmitCheck
    \/ CaptureEmitDo
    \/ CaptureSelfStop
    \/ StopScreenSharing
    \/ StopBegin
    \/ StopEmitCheck
    \/ StopEmitDo
    \/ StopDisconnect
    \/ StopJoin
    \/ StopTerminate
    \/ HandleScreenCaptureError
    \/ CloseWindow

-----------------------------------------------------------------------------
\* Opening a video file: the frame rate each side keeps.

\* the rates a file may report (cv2.CAP_PROP_FPS), whole numbers here
ReportedRates == (-1)..MaxReportedFps

\* VideoWorker.__init__: fps, with its sanity check
WorkerFps(reported) ==
    IF reported <= 0 \/ reported > MAX_SANE_FPS THEN FALLBACK_FPS ELSE reported

\* UploadedVideo.__init__: self.fps if self.fps > 0 else 30
SessionFps(reported) == IF reported > 0 THEN reported ELSE fps

\* a file reporting the usual rate has been opened by the session and its worker
InitOpened ==
    /\ reported_fps = fps
    /\ session_fps = SessionFps(fps)
    /\ worker_fps = WorkerFps(fps)

\* a file about to be opened
InitUnopened ==
    /\ reported_fps \in ReportedRates
    /\ session_fps = 0
    /\ worker_fps = 0

\* UploadedVideo.__init__ up to the video properties
OpenSession ==
    /\ session_fps = 0
    /\ session_fps' = SessionFps(reported_fps)
    /\ UNCHANGED <<reported_fps, worker_fps>>
    /\ UNCHANGED <<cvars, vvars, svars>>
    /\ UNCHANGED <<tvars, rvars, kvars>>

\* VideoWorker(video_path, size), called by UploadedVideo.__init__ afterwards
OpenWorker ==
    /\ session_fps # 0
    /\ worker_fps = 0
    /\ worker_fps' = WorkerFps(reported_fps)
    /\ UNCHANGED <<reported_fps, session_fps>>
    /\ UNCHANGED <<cvars, vvars, svars>>
    /\ UNCHANGED <<tvars, rvars, kvars>>

NextOpen ==
    \/ OpenSession
    \/ OpenWorker

-----------------------------------------------------------------------------
\* Pacing of the cadence steps: VideoWorker.next_frame_time against
\* time.perf_counter(). (VideoTop abstracts the outcome of this test as `due`.)

\* VideoWorker.__init__: self.next_frame_time = 0
InitPacing ==
    /\ perf_counter = 0
    /\ next_frame_time = 0
    /\ pace_start = 0
    /\ paced_steps = 0

\* VideoWorker.play: self.playing = True;
\* self.next_frame_time = time.perf_counter()
PacePlay ==
    /\ vw_playing' = TRUE
    /\ next_frame_time' = perf_counter
    /\ pace_start' = perf_counter
    /\ paced_steps' = 0
    /\ UNCHANGED perf_counter
    /\ UNCHANGED <<vw_running, current_frame, seek_requested, seek_frame, cap_pos,
                   error_count, vpc, runs_queued, frame_buffer, pending, received, mseek,
                   m_seek_arg, seeks_issued, handler_out, cadence_since, decode_lock,
                   vw_size>>
    /\ UNCHANGED <<cvars, svars, ovars, rvars, kvars>>

\* one cadence step of a playing worker: current_time = time.perf_counter();
\* `if current_time >= self.next_frame_time:`; on a successful read
\* self.next_frame_time = current_time + self.frame_duration
PaceStep(ret) ==
    /\ vw_playing
    /\ perf_counter >= next_frame_time
    /\ IF ret
       THEN /\ next_frame_time' = perf_counter + PeriodTicks
            /\ paced_steps' = paced_steps + 1
       ELSE UNCHANGED <<next_frame_time, paced_steps>>
    /\ UNCHANGED <<perf_counter, pace_start>>
    /\ UNCHANGED <<cvars, vvars, svars, ovars, rvars, kvars>>

\* the seek handler after a successful read:
\* self.next_frame_time = time.perf_counter()
PaceSeek ==
    /\ next_frame_time' = perf_counter
    /\ pace_start' = perf_counter
    /\ paced_steps' = 0
    /\ UNCHANGED perf_counter
    /\ UNCHANGED <<cvars, vvars, svars, ovars, rvars, kvars>>

\* Environment: time.perf_counter() advances (sleeps, scheduling latency)
PaceTick ==
    /\ perf_counter < MaxClock
    /\ perf_counter' = perf_counter + 1
    /\ UNCHANGED <<next_frame_time, pace_start, paced_steps>>
    /\ UNCHANGED <<cvars, vvars, svars, ovars, rvars, kvars>>

NextPacing ==
    \/ PacePlay
    \/ \E ret \in BOOLEAN : PaceStep(ret)
    \/ PaceSeek
    \/ PaceTick

\* the scaling targets of a session
Sizes == {"small", "large"}
InitialSize == "small"

-----------------------------------------------------------------------------
\* VideoWorker: state after UploadedVideo.__init__. The worker's own thread runs
\* process_video (started, direct connection). The session's second thread has
\* emitted started too: the worker lives in its own thread, so that invocation
\* of process_video is queued on the worker thread's event loop, which only
\* runs once the first process_video call has returned.
InitVideo ==
    /\ vw_running = TRUE
    /\ vw_playing = FALSE
    /\ current_frame = 0
    /\ seek_requested = FALSE
    /\ seek_frame = 0
    /\ cap_pos = 0
    /\ error_count = 0
    /\ vpc = "top"
    /\ runs_queued = 1
    /\ frame_buffer = <<>>
    /\ pending = <<>>
    /\ received = {}
    /\ mseek = "idle"
    /\ m_seek_arg = 0
    /\ seeks_issued = 0
    /\ handler_out = <<>>
    /\ cadence_since = FALSE
    /\ decode_lock = FALSE
    /\ vw_size = InitialSize

SeekTargets == 0..(TotalFrames - 1)
ReadOutcomes == {"ok", "fail", "raise"}

\* cap.read() can only succeed on a frame of the file
Readable == cap_pos \in 0..(TotalFrames - 1)

\* frame_ready.emit(pixmap); position_changed.emit(pos): one queued pair
\* of a pixmap scaled by frame_to_pixmap to self.size and a position
Event(frame, pos) == [frame |-> frame, pos |-> pos, size |-> vw_size]

\* the loop top producing on its cadence whether or not self.playing is set
VideoTop_IgnoresPlaying(due) ==
    /\ vpc = "top"
    /\ vpc' = IF ~vw_running THEN "exited"
              ELSE IF seek_requested THEN "seek_set"
              ELSE IF due THEN "cadence"
              ELSE "top"
    /\ UNCHANGED <<vw_running, vw_playing, current_frame, seek_requested, seek_frame,
                   cap_pos, error_count, runs_queued, frame_buffer, pending, received,
                   mseek, m_seek_arg, seeks_issued, handler_out, cadence_since>>
    /\ UNCHANGED <<decode_lock, vw_size>>
    /\ UNCHANGED nonvvars

\* `while self.running:` / `if self.seek_requested:` / `if self.playing:` and the
\* due-time test; `due` is the outcome of current_time >= self.next_frame_time
VideoTop(due) ==
    /\ vpc = "top"
    /\ vpc' = IF ~vw_running THEN "exited"
              ELSE IF seek_requested THEN "seek_set"
              ELSE IF vw_playing /\ due THEN "cadence"
              ELSE "top"
    /\ UNCHANGED <<vw_running, vw_playing, current_frame, seek_requested, seek_frame,
                   cap_pos, error_count, runs_queued, frame_buffer, pending, received,
                   mseek, m_seek_arg, seeks_issued, handler_out, cadence_since>>
    /\ UNCHANGED <<decode_lock, vw_size>>
    /\ UNCHANGED nonvvars

\* seek handler: `with self.decode_lock:` entered;
\* self.cap.set(cv2.CAP_PROP_POS_FRAMES, self.seek_frame)
SeekSet ==
    /\ vpc = "seek_set"
    /\ cap_pos' = seek_frame
    /\ vpc' = "seek_read"
    /\ UNCHANGED <<vw_running, vw_playing, current_frame, seek_requested, seek_frame,
                   error_count, runs_queued, frame_buffer, pending, received, mseek,
                   m_seek_arg, seeks_issued, handler_out, cadence_since>>
    /\ ~decode_lock
    /\ decode_lock' = TRUE
    /\ UNCHANGED vw_size
    /\ UNCHANGED nonvvars

\* the exception handler leaving self.playing untouched at MAX_ERRORS
OnException_KeepsPlaying ==
    /\ error_count' = error_count + 1
    /\ vpc' = IF error_count + 1 >= MAX_ERRORS THEN "halted" ELSE "top"
    /\ UNCHANGED vw_playing

\* the except branch of process_video: count, halt on MAX_ERRORS, else sleep
\* RECOVERY_DELAY and go round the loop
OnException ==
    /\ error_count' = error_count + 1
    /\ IF error_count + 1 >= MAX_ERRORS
       THEN /\ vw_playing' = FALSE
            /\ vpc' = "halted"
       ELSE /\ vpc' = "top"
            /\ UNCHANGED vw_playing

\* seek handler: self.current_frame = self.seek_frame; buffer cleared; one read;
\* on success frame_ready and position_changed are emitted
SeekRead(outcome, limit) ==
    /\ vpc = "seek_read"
    /\ current_frame' = seek_frame
    /\ frame_buffer' = <<>>
    /\ CASE outcome = "ok" ->
              /\ Readable
              /\ Len(pending) < limit
              /\ pending' = Append(pending, Event(cap_pos, seek_frame))
              /\ handler_out' = Append(handler_out, Event(cap_pos, seek_frame))
              /\ cap_pos' = cap_pos + 1
              /\ error_count' = 0
              /\ vpc' = "seek_clear"
              /\ UNCHANGED vw_playing
         [] outcome = "fail" ->
              /\ vpc' = "seek_clear"
              /\ UNCHANGED <<pending, handler_out, cap_pos, error_count, vw_playing>>
         [] outcome = "raise" ->
              /\ OnException
              /\ UNCHANGED <<pending, handler_out, cap_pos>>
    /\ UNCHANGED <<vw_running, seek_requested, seek_frame, runs_queued, received, mseek,
                   m_seek_arg, seeks_issued, cadence_since>>
    /\ decode_lock' = FALSE
    /\ UNCHANGED vw_size
    /\ UNCHANGED nonvvars

\* seek handler: self.seek_requested = False; continue
SeekClear ==
    /\ vpc = "seek_clear"
    /\ seek_requested' = FALSE
    /\ handler_out' = <<>>
    /\ vpc' = "top"
    /\ UNCHANGED <<vw_running, vw_playing, current_frame, seek_frame, cap_pos,
                   error_count, runs_queued, frame_buffer, pending, received, mseek,
                   m_seek_arg, seeks_issued, cadence_since>>
    /\ UNCHANGED <<decode_lock, vw_size>>
    /\ UNCHANGED nonvvars

\* one cadence step: read; on success emit, advance, wrap at the end of the
\* stream; on failure count and halt on MAX_ERRORS
Cadence(outcome, limit) ==
    /\ vpc = "cadence"
    /\ cadence_since' = TRUE
    /\ CASE outcome = "ok" ->
              /\ Readable
              /\ Len(pending) < limit
              /\ pending' = Append(pending, Event(cap_pos, current_frame + 1))
              /\ error_count' = 0
              /\ IF current_frame + 1 >= TotalFrames
                 THEN /\ current_frame' = 0
                      /\ cap_pos' = 0
                      /\ vw_playing' = FALSE
                 ELSE /\ current_frame' = current_frame + 1
                      /\ cap_pos' = cap_pos + 1
                      /\ UNCHANGED vw_playing
              /\ vpc' = "top"
         [] outcome = "fail" ->
              /\ error_count' = error_count + 1
              /\ IF error_count + 1 >= MAX_ERRORS
                 THEN /\ vw_playing' = FALSE
                      /\ vpc' = "halted"
                 ELSE /\ vpc' = "top"
                      /\ UNCHANGED vw_playing
              /\ UNCHANGED <<pending, current_frame, cap_pos>>
         [] outcome = "raise" ->
              /\ OnException
              /\ UNCHANGED <<pending, current_frame, cap_pos>>
    /\ UNCHANGED <<vw_running, seek_requested, seek_frame, runs_queued, frame_buffer,
                   received, mseek, m_seek_arg, seeks_issued, handler_out>>
    /\ ~decode_lock
    /\ UNCHANGED <<decode_lock, vw_size>>
    /\ UNCHANGED nonvvars

\* the second invocation of process_video started without waiting for the
\* running one to return (as a direct call from another thread would be)
RunQueuedProcessVideo_Direct ==
    /\ runs_queued > 0
    /\ mseek # "joining"
    /\ runs_queued' = runs_queued - 1
    /\ error_count' = 0
    /\ vpc' = "top"
    /\ UNCHANGED <<vw_running, vw_playing, current_frame, seek_requested, seek_frame,
                   cap_pos, frame_buffer, pending, received, mseek, m_seek_arg,
                   seeks_issued, handler_out, cadence_since>>
    /\ UNCHANGED <<decode_lock, vw_size>>
    /\ UNCHANGED nonvvars

\* process_video returned after MAX_ERRORS: the thread enters its event loop and
\* runs the queued invocation of process_video (error_count starts at 0 again)
RunQueuedProcessVideo ==
    /\ vpc = "halted"
    /\ runs_queued > 0
    /\ mseek # "joining"
    /\ runs_queued' = runs_queued - 1
    /\ error_count' = 0
    /\ vpc' = "top"
    /\ UNCHANGED <<vw_running, vw_playing, current_frame, seek_requested, seek_frame,
                   cap_pos, frame_buffer, pending, received, mseek, m_seek_arg,
                   seeks_issued, handler_out, cadence_since>>
    /\ UNCHANGED <<decode_lock, vw_size>>
    /\ UNCHANGED nonvvars

-----------------------------------------------------------------------------
\* Consumer thread: calls into the worker

\* VideoWorker.play
Play ==
    /\ mseek = "idle"
    /\ vw_playing' = TRUE
    /\ UNCHANGED <<vw_running, current_frame, seek_requested, seek_frame, cap_pos,
                   error_count, vpc, runs_queued, frame_buffer, pending, received, mseek,
                   m_seek_arg, seeks_issued, handler_out, cadence_since>>
    /\ UNCHANGED <<decode_lock, vw_size>>
    /\ UNCHANGED nonvvars

\* VideoWorker.pause
Pause ==
    /\ mseek = "idle"
    /\ vw_playing' = FALSE
    /\ UNCHANGED <<vw_running, current_frame, seek_requested, seek_frame, cap_pos,
                   error_count, vpc, runs_queued, frame_buffer, pending, received, mseek,
                   m_seek_arg, seeks_issued, handler_out, cadence_since>>
    /\ UNCHANGED <<decode_lock, vw_size>>
    /\ UNCHANGED nonvvars

\* VideoWorker.seek, first assignment: self.seek_requested = True
SeekFlag(frame) ==
    /\ mseek = "idle"
    /\ seeks_issued < MaxSeeks
    /\ seek_requested' = TRUE
    /\ mseek' = "w2"
    /\ m_seek_arg' = frame
    /\ seeks_issued' = seeks_issued + 1
    /\ cadence_since' = FALSE
    /\ UNCHANGED <<vw_running, vw_playing, current_frame, seek_frame, cap_pos,
                   error_count, vpc, runs_queued, frame_buffer, pending, received,
                   handler_out>>
    /\ UNCHANGED <<decode_lock, vw_size>>
    /\ UNCHANGED nonvvars

\* VideoWorker.seek, second assignment: self.seek_frame = frame
SeekFrame ==
    /\ mseek = "w2"
    /\ seek_frame' = m_seek_arg
    /\ mseek' = "idle"
    /\ UNCHANGED <<vw_running, vw_playing, current_frame, seek_requested, cap_pos,
                   error_count, vpc, runs_queued, frame_buffer, pending, received,
                   m_seek_arg, seeks_issued, handler_out, cadence_since>>
    /\ UNCHANGED <<decode_lock, vw_size>>
    /\ UNCHANGED nonvvars

\* VideoWorker.stop: self.running = False; thread.quit(); thread.wait() ...
StopVideo ==
    /\ mseek = "idle"
    /\ vw_running' = FALSE
    /\ mseek' = "joining"
    /\ UNCHANGED <<vw_playing, current_frame, seek_requested, seek_frame, cap_pos,
                   error_count, vpc, runs_queued, frame_buffer, pending, received,
                   m_seek_arg, seeks_issued, handler_out, cadence_since>>
    /\ UNCHANGED <<decode_lock, vw_size>>
    /\ UNCHANGED nonvvars

\* ... thread.wait() returns once process_video has returned
JoinVideo ==
    /\ mseek = "joining"
    /\ vpc \in {"exited", "halted"}
    /\ mseek' = "stopped"
    /\ vpc' = "finished"
    /\ UNCHANGED <<vw_running, vw_playing, current_frame, seek_requested, seek_frame,
                   cap_pos, error_count, runs_queued, frame_buffer, pending, received,
                   m_seek_arg, seeks_issued, handler_out, cadence_since>>
    /\ UNCHANGED <<decode_lock, vw_size>>
    /\ UNCHANGED nonvvars

\* the consumer's event loop delivers the oldest queued pair to
\* UploadedVideo.update_frame and UploadedVideo.update_position
ConsumeEvent ==
    /\ mseek = "idle"
    /\ pending # <<>>
    /\ pending' = Tail(pending)
    /\ received' = received \cup {"frame_ready", "position_changed"}
    /\ UNCHANGED <<vw_running, vw_playing, current_frame, seek_requested, seek_frame,
                   cap_pos, error_count, vpc, runs_queued, frame_buffer, mseek,
                   m_seek_arg, seeks_issued, handler_out, cadence_since>>
    /\ UNCHANGED <<decode_lock, vw_size>>
    /\ UNCHANGED nonvvars

NextVideo ==
    \/ \E due \in BOOLEAN : VideoTop(due)
    \/ SeekSet
    \/ \E outcome \in ReadOutcomes : SeekRead(outcome, MaxQueued)
    \/ SeekClear
    \/ \E outcome \in ReadOutcomes : Cadence(outcome, MaxQueued)
    \/ RunQueuedProcessVideo
    \/ Play
    \/ Pause
    \/ \E frame \in SeekTargets : SeekFlag(frame)
    \/ SeekFrame
    \/ StopVideo
    \/ JoinVideo
    \/ ConsumeEvent

\* playback alone (no seek, no stop), with a consumer that may lag further behind
NextChannel ==
    \/ \E due \in BOOLEAN : VideoTop(due)
    \/ \E outcome \in ReadOutcomes : Cadence(outcome, MaxPending)
    \/ RunQueuedProcessVideo
    \/ Play
    \/ Pause
    \/ ConsumeEvent

-----------------------------------------------------------------------------
\* UploadedVideo: the session. Its methods are slots and event handlers of the
\* consumer thread, so each runs to completion.

frame_count == TotalFrames

\* QMediaPlayer.duration() of the file, ms
AudioDuration == (frame_count * 1000) \div fps

\* time.time() * 1000 is far more than one cooldown after last_seek_time = 0
StartNow == seek_cooldown
MaxNow == StartNow + MaxSTicks * TickMs

\* the audio positions a report may carry
ReportPositions == {p \in 0..AudioDuration : p % ReportStepMs = 0} \cup {AudioDuration}

NoReport == [a |-> -1, d |-> -1, dragging |-> FALSE, seeks |-> 0]

InitSession ==
    /\ s_playing = FALSE
    /\ s_current_frame = 0
    /\ slider_being_dragged = FALSE
    /\ slider_value = 0
    /\ last_seek_time = 0
    /\ media_playing = FALSE
    /\ aborted = FALSE
    /\ now = StartNow
    /\ seek_log = <<>>
    /\ report = NoReport

Clamp(v, lo, hi) == IF v < lo THEN lo ELSE IF v > hi THEN hi ELSE v

Abs(x) == IF x < 0 THEN -x ELSE x

\* int((position / duration) * frame_count)
AudioFrame(position) == (position * frame_count) \div AudioDuration

\* VideoWorker.seek as one step of the consumer thread
WorkerSeek(frame) ==
    /\ seek_requested' = TRUE
    /\ seek_frame' = frame
    /\ m_seek_arg' = frame

NoWorkerSeek == UNCHANGED <<seek_requested, seek_frame, m_seek_arg>>

\* UploadedVideo.seek with the cooldown test left out
SessionSeek_NoCooldown(frame) ==
    /\ Len(seek_log) < MaxLog
    /\ LET f == Clamp(frame, 0, frame_count - 1) IN
         /\ WorkerSeek(f)
         /\ seek_log' = Append(seek_log, <<now, "exec">>)
         /\ IF has_audio
            THEN /\ s_current_frame' = f
                 /\ last_seek_time' = now
                 /\ UNCHANGED aborted
            ELSE /\ aborted' = TRUE
                 /\ UNCHANGED <<s_current_frame, last_seek_time>>

\* UploadedVideo.seek: dropped inside the cooldown; else clamp, worker.seek,
\* media_player.setPosition (AttributeError without a media player), stamp
SessionSeek(frame) ==
    /\ Len(seek_log) < MaxLog
    /\ IF now - last_seek_time < seek_cooldown
       THEN /\ seek_log' = Append(seek_log, <<now, "drop">>)
            /\ NoWorkerSeek
            /\ UNCHANGED <<s_current_frame, last_seek_time, aborted>>
       ELSE LET f == Clamp(frame, 0, frame_count - 1) IN
            /\ WorkerSeek(f)
            /\ seek_log' = Append(seek_log, <<now, "exec">>)
            /\ IF has_audio
               THEN /\ s_current_frame' = f
                    /\ last_seek_time' = now
                    /\ UNCHANGED aborted
               ELSE /\ aborted' = TRUE
                    /\ UNCHANGED <<s_current_frame, last_seek_time>>

\* UploadedVideo.play_pause
PlayPause ==
    /\ ~aborted
    /\ s_playing' = ~s_playing
    /\ IF ~s_playing
       THEN /\ SessionSeek(slider_value)
            /\ IF has_audio
               THEN /\ vw_playing' = TRUE
                    /\ media_playing' = TRUE
               ELSE UNCHANGED <<vw_playing, media_playing>>
       ELSE /\ vw_playing' = FALSE
            /\ media_playing' = FALSE
            /\ NoWorkerSeek
            /\ UNCHANGED <<s_current_frame, last_seek_time, aborted, seek_log>>
    /\ UNCHANGED <<slider_being_dragged, slider_value, has_audio, now>>
    /\ report' = NoReport
    /\ UNCHANGED <<cvars, xvars, vrest>>

\* UploadedVideo.on_slider_pressed
SliderPressed ==
    /\ ~aborted
    /\ ~slider_being_dragged
    /\ slider_being_dragged' = TRUE
    /\ IF s_playing
       THEN /\ vw_playing' = FALSE
            /\ media_playing' = FALSE
            /\ aborted' = ~has_audio
       ELSE UNCHANGED <<vw_playing, media_playing, aborted>>
    /\ NoWorkerSeek
    /\ UNCHANGED <<s_playing, s_current_frame, slider_value, last_seek_time, has_audio,
                   now, seek_log>>
    /\ report' = NoReport
    /\ UNCHANGED <<cvars, xvars, vrest>>

\* the user drags the handle: valueChanged -> UploadedVideo.on_slider_value_changed
SliderMoved(value) ==
    /\ ~aborted
    /\ slider_being_dragged
    /\ value # slider_value
    /\ slider_value' = value
    /\ SessionSeek(value)
    /\ UNCHANGED <<s_playing, slider_being_dragged, has_audio, media_playing, now, vw_playing>>
    /\ report' = NoReport
    /\ UNCHANGED <<cvars, xvars, vrest>>

\* UploadedVideo.on_slider_released
SliderReleased ==
    /\ ~aborted
    /\ slider_being_dragged
    /\ slider_being_dragged' = FALSE
    /\ IF s_playing /\ ~has_audio
       THEN \* worker.play(), then media_player.play() raises before seek is reached
            /\ vw_playing' = TRUE
            /\ aborted' = TRUE
            /\ NoWorkerSeek
            /\ UNCHANGED <<media_playing, s_current_frame, last_seek_time, seek_log>>
       ELSE /\ vw_playing' = IF s_playing THEN TRUE ELSE vw_playing
            /\ media_playing' = IF s_playing THEN TRUE ELSE media_playing
            /\ SessionSeek(slider_value)
    /\ UNCHANGED <<s_playing, slider_value, has_audio, now>>
    /\ report' = NoReport
    /\ UNCHANGED <<cvars, xvars, vrest>>

\* the number of worker.seek calls one audio position report makes:
\* sync_video_position and on_media_position_changed are both connected to
\* positionChanged and make the same test
ReportSeeks(a, d, dragging) ==
    IF dragging THEN 0
    ELSE (IF Abs(a - d) >= seek_threshold THEN 1 ELSE 0)
       + (IF Abs(a - d) >= seek_threshold THEN 1 ELSE 0)

\* QMediaPlayer.positionChanged(position): sync_video_position, then
\* on_media_position_changed
MediaReport(position) ==
    /\ ~aborted
    /\ has_audio
    /\ AudioDuration > 0
    /\ LET a == AudioFrame(position)
           n == ReportSeeks(a, s_current_frame, slider_being_dragged)
       IN /\ report' = [a |-> a, d |-> s_current_frame,
                        dragging |-> slider_being_dragged, seeks |-> n]
          /\ IF n > 0 THEN WorkerSeek(a) ELSE NoWorkerSeek
    /\ UNCHANGED <<s_playing, s_current_frame, slider_being_dragged, slider_value,
                   last_seek_time, has_audio, media_playing, aborted, now, seek_log,
                   vw_playing>>
    /\ UNCHANGED <<cvars, xvars, vrest>>

\* a queued frame_ready / position_changed pair of the worker is delivered:
\* UploadedVideo.update_frame, then UploadedVideo.update_position(pos)
UpdateFromWorker(pos) ==
    /\ ~aborted
    /\ IF slider_being_dragged
       THEN UNCHANGED <<slider_value, s_current_frame>>
       ELSE /\ slider_value' = Clamp(pos, 0, frame_count - 1)
            /\ s_current_frame' = pos
    /\ NoWorkerSeek
    /\ UNCHANGED <<s_playing, slider_being_dragged, last_seek_time, has_audio,
                   media_playing, aborted, now, seek_log, vw_playing>>
    /\ report' = NoReport
    /\ UNCHANGED <<cvars, xvars, vrest>>

\* a resize that also re-seeks the worker to the session's frame
Resize_Reseeks(new_size) ==
    /\ ~aborted
    /\ vw_size' = new_size
    /\ slider_value' = IF slider_being_dragged THEN slider_value
                       ELSE Clamp(s_current_frame, 0, frame_count - 1)
    /\ report' = NoReport
    /\ WorkerSeek(Clamp(s_current_frame + 1, 0, frame_count - 1))
    /\ UNCHANGED <<s_playing, s_current_frame, slider_being_dragged, last_seek_time,
                   has_audio, media_playing, aborted, now, seek_log, vw_playing>>
    /\ UNCHANGED <<decode_lock, vw_running, current_frame, cap_pos, error_count, vpc,
                   runs_queued, frame_buffer, pending, received, mseek, seeks_issued,
                   handler_out, cadence_since>>
    /\ UNCHANGED <<cvars, xvars>>

\* UploadedVideo.resize: self.size, worker.size, update_timeline_position,
\* update_frame_position(self.current_frame)
Resize(new_size) ==
    /\ ~aborted
    /\ vw_size' = new_size
    /\ slider_value' = IF slider_being_dragged THEN slider_value
                       ELSE Clamp(s_current_frame, 0, frame_count - 1)
    /\ report' = NoReport
    /\ NoWorkerSeek
    /\ UNCHANGED <<s_playing, s_current_frame, slider_being_dragged, last_seek_time,
                   has_audio, media_playing, aborted, now, seek_log, vw_playing>>
    /\ UNCHANGED <<decode_lock, vw_running, current_frame, cap_pos, error_count, vpc,
                   runs_queued, frame_buffer, pending, received, mseek, seeks_issued,
                   handler_out, cadence_since>>
    /\ UNCHANGED <<cvars, xvars>>

\* Environment: time.time() advances
SessionTick ==
    /\ ~aborted
    /\ now < MaxNow
    /\ now' = now + TickMs
    /\ UNCHANGED <<s_playing, s_current_frame, slider_being_dragged, slider_value,
                   last_seek_time, has_audio, media_playing, aborted, seek_log>>
    /\ report' = NoReport
    /\ UNCHANGED <<cvars, xvars, vvars>>

NextSession ==
    \/ PlayPause
    \/ SliderPressed
    \/ \E value \in 0..(frame_count - 1) : SliderMoved(value)
    \/ SliderReleased
    \/ \E position \in ReportPositions : MediaReport(position)
    \/ \E pos \in 0..frame_count : UpdateFromWorker(pos)
    \/ SessionTick

-----------------------------------------------------------------------------
\* A session seek and the audio position report that answers it, for a file of
\* any rate and length.

\* UploadedVideo.seek: position = int(frame / self.fps * 1000)
SeekPosition(frame, rate) == (frame * 1000) \div rate

\* sync_video_position / on_media_position_changed:
\* frame = int((position / self.media_player.duration()) * self.frame_count)
ReportedFrame(position, duration, count) == (position * count) \div duration

\* the duration of a file of `count` frames at `rate` frames per second, in
\* whole ms, rounded either way
Durations(count, rate) ==
    {d \in {(count * 1000) \div rate, (count * 1000 + rate - 1) \div rate} : d > 0}

\* a file has been opened, a frame of it is about to be sought
InitRoundTrip ==
    /\ rt_fps \in 1..MaxRate
    /\ rt_frame_count \in 1..MaxFrames
    /\ rt_duration \in Durations(rt_frame_count, rt_fps)
    /\ rt_frame \in 0..(rt_frame_count - 1)
    /\ rt_position = -1
    /\ rt_current_frame = 0
    /\ rt_seeks = -1

\* the file of the sessions of the other parts: TotalFrames frames at fps
InitNoRoundTrip ==
    /\ rt_fps = fps
    /\ rt_frame_count = TotalFrames
    /\ rt_duration = (TotalFrames * 1000) \div fps
    /\ rt_frame = 0
    /\ rt_position = -1
    /\ rt_current_frame = 0
    /\ rt_seeks = -1

\* UploadedVideo.seek(rt_frame), outside the cooldown: clamp, worker.seek,
\* media_player.setPosition(position), self.current_frame = frame
RoundTripSeek ==
    /\ rt_position = -1
    /\ LET f == IF rt_frame < 0 THEN 0
                ELSE IF rt_frame > rt_frame_count - 1 THEN rt_frame_count - 1
                ELSE rt_frame
       IN /\ rt_position' = SeekPosition(f, rt_fps)
          /\ rt_current_frame' = f
    /\ UNCHANGED <<rt_fps, rt_frame_count, rt_duration, rt_frame, rt_seeks>>
    /\ UNCHANGED <<cvars, vvars, svars, ovars, tvars, kvars>>

\* positionChanged(rt_position), the scrubber not held: sync_video_position,
\* then on_media_position_changed
RoundTripReport ==
    /\ rt_position # -1
    /\ rt_seeks = -1
    /\ rt_seeks' = IF Abs(ReportedFrame(rt_position, rt_duration, rt_frame_count)
                              - rt_current_frame) >= seek_threshold
                   THEN 2 ELSE 0
    /\ UNCHANGED <<rt_fps, rt_frame_count, rt_duration, rt_frame, rt_position,
                   rt_current_frame>>
    /\ UNCHANGED <<cvars, vvars, svars, ovars, tvars, kvars>>

NextRoundTrip ==
    \/ RoundTripSeek
    \/ RoundTripReport

-----------------------------------------------------------------------------
\* The video sessions of the canvas, UploadedVideo.cleanup and
\* PainterApp.closeEvent. A session is a record of its references (worker,
\* media_player, timeline, thread, cap: "none" is Python's None) and of the
\* calls made on its resources.

\* UploadedVideo.__init__: the session as Canvas.add_uploaded_video puts it on
\* the canvas
NewSession(audio_ok) ==
    [playing      |-> FALSE,
     worker       |-> "live",
     media_player |-> IF audio_ok THEN "live" ELSE "none",
     timeline     |-> "live",
     thread       |-> "running",
     cap          |-> "open",
     stops        |-> 0,     \* worker.stop() calls
     releases     |-> 0,     \* self.cap.release() calls
     cleanups     |-> 0]     \* cleanup() calls

\* the finally block of cleanup with `self.worker = None` left out
Finally_KeepsWorker(s) == [s EXCEPT !.timeline = "none"]

\* the finally block of cleanup: self.worker = None; self.timeline = None
Finally(s) == [s EXCEPT !.worker = "none", !.timeline = "none"]

\* UploadedVideo.cleanup. An attribute access on None raises AttributeError:
\* inside the inner try (disconnect) it is passed over, elsewhere it leaves
\* the try body for the `except Exception` handler, which prints it, and the
\* finally block runs in every case.
Cleanup(s) ==
    LET s1 == [s EXCEPT !.playing = FALSE, !.cleanups = @ + 1]
        \* self.worker.stop()
        s2 == [s1 EXCEPT !.stops = @ + 1]
        \* media_player.stop(); self.media_player = None
        s3 == [s2 EXCEPT !.media_player = "none"]
        \* thread.quit(); thread.wait(1000) / terminate(); self.thread = None
        s4 == [s3 EXCEPT !.thread = "none"]
        \* self.cap.release(); self.cap = None
        s5 == [s4 EXCEPT !.cap = "none", !.releases = @ + 1]
    IN IF s.worker = "none" THEN Finally(s1)
       ELSE IF s.timeline = "none" THEN Finally(s3)
       ELSE IF s.thread = "none" THEN Finally(s3)
       ELSE IF s.cap = "none" THEN Finally(s4)
       ELSE Finally(s5)

\* cleanup raises to its caller: never, its handler catches every Exception
CleanupRaises(s) == FALSE

\* Canvas.__init__: no item; PainterApp.__init__: cleanup_done = False
InitCanvas ==
    /\ uploaded_items = <<>>
    /\ removed = <<>>
    /\ kpc = "open"
    /\ k_index = 0
    /\ cleanup_done = FALSE

\* Canvas.add_uploaded_video: new_video = UploadedVideo(...); uploaded_items.append
AddUploadedVideo(audio_ok) ==
    /\ kpc = "open"
    /\ Len(uploaded_items) < MaxVideos
    /\ uploaded_items' = Append(uploaded_items, NewSession(audio_ok))
    /\ UNCHANGED <<removed, kpc, k_index, cleanup_done>>
    /\ UNCHANGED <<cvars, vvars, svars, ovars, tvars, rvars>>

\* UploadedVideo.play_pause of the i-th session: self.playing = not self.playing
ItemPlayPause(i) ==
    /\ kpc = "open"
    /\ i \in 1..Len(uploaded_items)
    /\ uploaded_items' = [uploaded_items EXCEPT ![i].playing = ~@]
    /\ UNCHANGED <<removed, kpc, k_index, cleanup_done>>
    /\ UNCHANGED <<cvars, vvars, svars, ovars, tvars, rvars>>

\* Canvas.delete_video of the i-th session: worker.stop(), thread.quit(),
\* thread.wait(), the timeline deleted, the session taken off the canvas
DeleteVideo(i) ==
    /\ kpc = "open"
    /\ i \in 1..Len(uploaded_items)
    /\ uploaded_items' = [j \in 1..(Len(uploaded_items) - 1) |->
                             IF j < i THEN uploaded_items[j] ELSE uploaded_items[j + 1]]
    /\ UNCHANGED <<removed, kpc, k_index, cleanup_done>>
    /\ UNCHANGED <<cvars, vvars, svars, ovars, tvars, rvars>>

\* PainterApp.closeEvent entered: `if not self.cleanup_done:`
CloseEvent ==
    /\ kpc = "open"
    /\ kpc' = IF cleanup_done THEN "closed" ELSE "own_loop"
    /\ k_index' = 1
    /\ UNCHANGED <<uploaded_items, removed, cleanup_done>>
    /\ UNCHANGED <<cvars, vvars, svars, ovars, tvars, rvars>>

\* closeEvent: `for item in self.canvas.uploaded_items: item.cleanup()`, one
\* item; an exception would leave the try body for closeEvent's handler
CloseOwnLoop ==
    /\ kpc = "own_loop"
    /\ IF k_index > Len(uploaded_items)
       THEN /\ kpc' = "canvas_cleanup"
            /\ UNCHANGED <<uploaded_items, k_index>>
       ELSE /\ uploaded_items' = [uploaded_items EXCEPT ![k_index] = Cleanup(@)]
            /\ k_index' = k_index + 1
            /\ kpc' = IF CleanupRaises(uploaded_items[k_index]) THEN "closed" ELSE kpc
    /\ UNCHANGED <<removed, cleanup_done>>
    /\ UNCHANGED <<cvars, vvars, svars, ovars, tvars, rvars>>

\* Canvas.cleanup: `for item in self.uploaded_items[:]: item.cleanup()`; once
\* the list is empty closeEvent goes on to `self.cleanup_done = True`
CanvasCleanupItem ==
    /\ kpc = "canvas_cleanup"
    /\ IF uploaded_items = <<>>
       THEN /\ kpc' = "closed"
            /\ cleanup_done' = TRUE
            /\ UNCHANGED uploaded_items
       ELSE /\ uploaded_items' = [uploaded_items EXCEPT ![1] = Cleanup(@)]
            /\ kpc' = IF CleanupRaises(uploaded_items[1]) THEN "closed" ELSE "canvas_remove"
            /\ UNCHANGED cleanup_done
    /\ UNCHANGED <<removed, k_index>>
    /\ UNCHANGED <<cvars, vvars, svars, ovars, tvars, rvars>>

\* Canvas.cleanup: self.uploaded_items.remove(item)
CanvasRemoveItem ==
    /\ kpc = "canvas_remove"
    /\ removed' = Append(removed, Head(uploaded_items))
    /\ uploaded_items' = Tail(uploaded_items)
    /\ kpc' = "canvas_cleanup"
    /\ UNCHANGED <<k_index, cleanup_done>>
    /\ UNCHANGED <<cvars, vvars, svars, ovars, tvars, rvars>>

NextClose ==
    \/ \E audio_ok \in BOOLEAN : AddUploadedVideo(audio_ok)
    \/ \E i \in 1..MaxVideos : ItemPlayPause(i)
    \/ \E i \in 1..MaxVideos : DeleteVideo(i)
    \/ CloseEvent
    \/ CloseOwnLoop
    \/ CanvasCleanupItem
    \/ CanvasRemoveItem

-----------------------------------------------------------------------------
\* playback with seeks, the consumer lagging by up to MaxStale events
NextPlayback ==
    \/ \E due \in BOOLEAN : VideoTop(due)
    \/ SeekSet
    \/ \E outcome \in ReadOutcomes : SeekRead(outcome, MaxStale)
    \/ SeekClear
    \/ \E outcome \in ReadOutcomes : Cadence(outcome, MaxStale)
    \/ RunQueuedProcessVideo
    \/ Play
    \/ Pause
    \/ \E frame \in SeekTargets : SeekFlag(frame)
    \/ SeekFrame
    \/ ConsumeEvent

\* playback of a readable file with seeks, while the item is being resized
NextResize ==
    \/ \E due \in BOOLEAN : VideoTop(due)
    \/ SeekSet
    \/ SeekRead("ok", MaxQueued)
    \/ SeekClear
    \/ Cadence("ok", MaxQueued)
    \/ Play
    \/ Pause
    \/ \E frame \in SeekTargets : SeekFlag(frame)
    \/ SeekFrame
    \/ ConsumeEvent
    \/ \E new_size \in Sizes : Resize(new_size)

-----------------------------------------------------------------------------
\* a video source and a capture source from their opening to their first
\* frames, every native call succeeding
NextIdle ==
    \/ \E due \in BOOLEAN : VideoTop(due)
    \/ SeekSet
    \/ SeekRead("ok", MaxQueued)
    \/ SeekClear
    \/ Cadence("ok", MaxQueued)
    \/ Play
    \/ \E frame \in SeekTargets : SeekFlag(frame)
    \/ SeekFrame
    \/ \E kind \in {"window", "monitor"} : StartScreenSharing(kind)
    \/ StartCapture
    \/ CaptureScreenEnter(TRUE)
    \/ LoopTop
    \/ Liveness
    \/ WindowAttempt(TRUE, NoFail, TRUE)
    \/ MonitorGrab(TRUE)

-----------------------------------------------------------------------------
Init ==
    /\ InitCapture
    /\ InitCanvas
    /\ InitPacing
    /\ InitNoRoundTrip
    /\ InitVideo
    /\ InitSession
    /\ InitOpened
    /\ has_audio = TRUE

\* before the file is opened, whatever rate it reports
InitAnyRate ==
    /\ InitCapture
    /\ InitCanvas
    /\ InitPacing
    /\ InitNoRoundTrip
    /\ InitVideo
    /\ InitSession
    /\ InitUnopened
    /\ has_audio = TRUE

\* the session whether or not its QMediaPlayer could be created
InitAnyAudio ==
    /\ InitCapture
    /\ InitCanvas
    /\ InitPacing
    /\ InitNoRoundTrip
    /\ InitVideo
    /\ InitSession
    /\ InitOpened
    /\ has_audio \in BOOLEAN

\* the capture session alone
SpecCapture == Init /\ [][NextCapture]_vars

\* the video worker and the consumer's calls into it
SpecVideo == Init /\ [][NextVideo]_vars

\* the video worker during playback, with a slow consumer
SpecChannel == Init /\ [][NextChannel]_vars

\* the video session, the worker's events arriving in any order
SpecSession == InitAnyAudio /\ [][NextSession]_vars

\* the video worker during playback with seeks
SpecPlayback == Init /\ [][NextPlayback]_vars

\* the video worker while its item is resized
SpecResize == Init /\ [][NextResize]_vars

\* sources after they are opened
SpecIdle == Init /\ [][NextIdle]_vars

\* opening a video file
SpecOpen == InitAnyRate /\ [][NextOpen]_vars

\* capture sessions started one over the other
SpecRestart == Init /\ [][NextRestart]_vars

\* the video sessions of the canvas until the application is closed
SpecClose == Init /\ [][NextClose]_vars

\* the pacing of a playing worker
SpecPacing == Init /\ [][NextPacing]_vars

\* a file of any rate and length, a seek in it about to be made
InitAnyFile ==
    /\ InitCapture
    /\ InitCanvas
    /\ InitPacing
    /\ InitRoundTrip
    /\ InitVideo
    /\ InitSession
    /\ InitOpened
    /\ has_audio = TRUE

\* a session seek and the audio report of the position it set
SpecRoundTrip == InitAnyFile /\ [][NextRoundTrip]_vars

-----------------------------------------------------------------------------
\* Properties of the capture session (checked under SpecCapture)

HasEmitted(msg) == \E i \in 1..Len(emitted) : emitted[i][2] = msg

\* C1 (as claimed): every capture_window_frame call releases as many native
\* resources as it acquired, whichever way it ends.
C1_AcquiredEqualsReleased ==
    last_attempt.exit # "never" =>
        Len(last_attempt.acquired) = Len(last_attempt.released)

C10_EmissionsRateLimited ==
    \A i, j \in 1..Len(emitted) :
        i < j => emitted[j][1] - emitted[i][1] >= CooldownTicks

-----------------------------------------------------------------------------
\* Properties of the video worker (checked under SpecVideo)

LoopPositions == {"top", "seek_set", "seek_read", "seek_clear", "cadence"}

\* C2 (as claimed, for a seek whose read succeeds): when the seek handler is
\* about to clear seek_requested it has emitted exactly one frame_ready /
\* position_changed pair, and both carry the target f of the seek call.
C2_SeekDeliversTarget ==
    (vpc = "seek_clear" /\ handler_out # <<>>) =>
        handler_out = <<Event(m_seek_arg, m_seek_arg)>>

\* C3 (as claimed): once the consumer's seek calls have returned and the worker
\* is quiescent (no seek pending, no cadence step since), the decode position is
\* the target of the last seek call issued.
C3_LastSeekWins ==
    (/\ seeks_issued > 0
     /\ mseek = "idle"
     /\ ~seek_requested
     /\ vpc = "top"
     /\ ~cadence_since) => current_frame = m_seek_arg

-----------------------------------------------------------------------------
\* Properties of the frame channel (checked under SpecChannel)

\* C5 (as claimed): never more than MAX_FRAME_BUFFER_SIZE produced frames are
\* pending between the video worker and the consumer.
C5_PendingBounded == Len(pending) <= MAX_FRAME_BUFFER_SIZE

\* C6 (as claimed): a frame pushed while MAX_FRAME_BUFFER_SIZE frames are pending
\* replaces the oldest pending frame (the others keep their order, the new frame
\* is last).
C6_PushDropsOldest ==
    [][(/\ Len(pending) = MAX_FRAME_BUFFER_SIZE
        /\ pending' # pending
        /\ pending' # Tail(pending))
       => (/\ Len(pending') = MAX_FRAME_BUFFER_SIZE
           /\ \A i \in 1..(MAX_FRAME_BUFFER_SIZE - 1) : pending'[i] = pending[i + 1])]_vars

-----------------------------------------------------------------------------
\* Properties of the video session (checked under SpecSession)

\* C7 (as claimed): an audio position report (scrubber not held) issues a
\* corrective seek iff the decode position d and the audio-equivalent index a
\* differ by more than one frame, and at most one per report.
C7_CorrectiveSeekIffFar ==
    (report # NoReport /\ ~report.dragging) =>
        /\ (report.seeks >= 1) <=> (Abs(report.d - report.a) > 1)
        /\ report.seeks <= 1

\* C8: any two session seeks that reached the worker are at least one cooldown
\* (50 ms) apart; a seek call inside the cooldown is dropped.
C8_ExecutedSeeksApart ==
    \A i, j \in 1..Len(seek_log) :
        (i < j /\ seek_log[i][2] = "exec" /\ seek_log[j][2] = "exec")
            => seek_log[j][1] - seek_log[i][1] >= seek_cooldown

\* C8 witness: during a drag, a seek executed, the next one 10 ms later was
\* dropped, and a later one executed again.
C8_Witness ==
    /\ slider_being_dragged
    /\ Len(seek_log) = 3
    /\ seek_log[1][2] = "exec"
    /\ seek_log[2] = <<seek_log[1][1] + 10, "drop">>
    /\ seek_log[3][2] = "exec"

-----------------------------------------------------------------------------
\* Properties of the video worker's threads (checked under SpecVideo)

C12_EndOfStreamWraps ==
    [][(/\ vpc = "cadence"
        /\ Len(pending') > Len(pending)
        /\ pending'[Len(pending')].frame = TotalFrames - 1)
           => (current_frame' = 0 /\ ~vw_playing')]_vars

-----------------------------------------------------------------------------
\* Properties of stopping a capture session (checked under SpecCapture)

\* C13 (as claimed): once stop_screen_sharing has finished, the capture thread
\* is not running and every native resource the session acquired is released.
C13_StopReleasesEverything ==
    (sessions > 0 /\ sc_worker = "none" /\ mpc = "idle") =>
        /\ cpc = "not_started"
        /\ \A r \in {"hwndDC", "mfcDC", "saveDC", "saveBitMap"} :
               (\E i \in 1..Len(last_attempt.acquired) : last_attempt.acquired[i] = r)
                   => (\E j \in 1..Len(last_attempt.released) : last_attempt.released[j] = r)

-----------------------------------------------------------------------------
\* Properties of playback (checked under SpecPlayback)

\* C14 (as claimed): the channel is cleared before the post-seek frame is
\* pushed: when the seek handler pushes its frame, no older frame is left in
\* the channel for the consumer.
C14_ChannelClearedOnSeek ==
    [][(vpc = "seek_read" /\ Len(pending') > Len(pending)) => Len(pending') = 1]_vars

-----------------------------------------------------------------------------
\* More properties of the video session (checked under SpecSession)

\* C15 (as claimed): when the scrubber is released the seek to the released
\* slider value is executed, and the worker is playing afterwards only if the
\* session was playing.
C15_ReleaseSeeksToSlider ==
    [][(slider_being_dragged /\ ~slider_being_dragged' /\ ~aborted') =>
          /\ Len(seek_log') > Len(seek_log)
          /\ seek_log'[Len(seek_log')] = <<now, "exec">>
          /\ seek_requested' /\ seek_frame' = slider_value
          /\ vw_playing' => s_playing]_vars

-----------------------------------------------------------------------------
\* Properties of pausing (checked under SpecChannel, where no seek is issued)

\* C16 (as claimed): while the worker is paused (from a pause() to the next
\* play()) the decode position is unchanged and no cadence frame is produced.
C16_PausePreservesPosition ==
    [][(~vw_playing /\ ~vw_playing') =>
          /\ current_frame' = current_frame
          /\ cap_pos' = cap_pos
          /\ Len(pending') <= Len(pending)]_vars

-----------------------------------------------------------------------------
\* Properties of resizing (checked under SpecResize)

\* C17: resize() changes only the scaling target: playback state, decode
\* position, pending seek and queued frames are as before; and every frame is
\* produced with the one target size that was set when its production step
\* ran, a step no resize takes part in.
C17_ResizeOnlyRescales ==
    /\ [][vw_size' # vw_size =>
            UNCHANGED <<vw_playing, vw_running, s_playing, current_frame, s_current_frame,
                        cap_pos, seek_requested, seek_frame, pending, error_count, vpc>>]_vars
    /\ [][Len(pending') > Len(pending) =>
            (pending'[Len(pending')].size = vw_size /\ vw_size' = vw_size)]_vars

\* C17 witness: the item was resized while playing with a seek pending, and a
\* frame scaled to the old size is still queued.
C17_Witness ==
    /\ vw_size = "large"
    /\ vw_playing /\ seek_requested
    /\ pending # <<>> /\ pending[1].size = "small"

-----------------------------------------------------------------------------
\* Properties of freshly opened sources (checked under SpecIdle)

\* the video worker as UploadedVideo.__init__ leaves it: nothing commanded,
\* nothing delivered, position 0
IdleVideo ==
    /\ ~vw_playing /\ ~seek_requested /\ seeks_issued = 0
    /\ vpc = "top"
    /\ pending = <<>> /\ received = {}
    /\ current_frame = 0 /\ cap_pos = 0

\* C18: a source sits idle after open. The video worker starts idle and only a
\* play() or a seek() takes it out of that state; the capture worker makes no
\* capture attempt while start_capture() has not been called.
C18_IdleUntilCommanded ==
    /\ IdleVideo
    /\ [][IdleVideo => (IdleVideo' \/ vw_playing' \/ seek_requested')]_vars
    /\ [](mpc = "starting" => (attempts = 0 /\ cpc \notin {"liveness", "attempt", "grab"}))

\* C18 witness: the capture thread is in its loop and start_capture() has not
\* been called yet, while the video worker is still idle.
C18_Witness == IdleVideo /\ mpc = "starting" /\ cpc = "top" /\ ~sc_capturing

-----------------------------------------------------------------------------
\* Properties of opening a video file (checked under SpecOpen)

\* C19 (as claimed): once the file is opened, the rate used is the reported
\* one, replaced by 30 exactly when it is non-positive or above 120, and the
\* worker and the session hold the same rate.
C19_SameSaneRate ==
    worker_fps # 0 =>
        /\ worker_fps = (IF reported_fps <= 0 \/ reported_fps > MAX_SANE_FPS
                         THEN FALLBACK_FPS ELSE reported_fps)
        /\ session_fps = worker_fps

-----------------------------------------------------------------------------
\* More properties of capture attempts (checked under SpecCapture)

\* C20 (as claimed): an attempt releases its native resources in strict
\* reverse order of their acquisition and none of them twice: of two resources
\* it releases, the one released first was acquired last.
C20_ReleasedInReverseOrder ==
    last_attempt.exit # "never" =>
        LET acq == last_attempt.acquired
            rel == last_attempt.released
            AcqIndex(r) == CHOOSE k \in 1..Len(acq) : acq[k] = r
        IN \A i, j \in 1..Len(rel) :
               i < j => (rel[i] # rel[j] /\ AcqIndex(rel[i]) > AcqIndex(rel[j]))

-----------------------------------------------------------------------------
\* The session and its worker together: the session's slots call into the
\* worker, the worker's queued events are delivered to the session's slots.

\* the oldest queued frame_ready / position_changed pair is delivered:
\* UploadedVideo.update_frame, then UploadedVideo.update_position(frame)
DeliverEvent ==
    /\ ~aborted
    /\ pending # <<>>
    /\ pending' = Tail(pending)
    /\ received' = received \cup {"frame_ready", "position_changed"}
    /\ IF slider_being_dragged
       THEN UNCHANGED <<slider_value, s_current_frame>>
       ELSE /\ slider_value' = Clamp(Head(pending).pos, 0, frame_count - 1)
            /\ s_current_frame' = Head(pending).pos
    /\ report' = NoReport
    /\ UNCHANGED <<s_playing, slider_being_dragged, last_seek_time, has_audio,
                   media_playing, aborted, now, seek_log>>
    /\ UNCHANGED <<vw_running, vw_playing, current_frame, seek_requested, seek_frame,
                   cap_pos, error_count, vpc, runs_queued, frame_buffer, mseek,
                   m_seek_arg, seeks_issued, handler_out, cadence_since>>
    /\ UNCHANGED <<decode_lock, vw_size>>
    /\ UNCHANGED <<cvars, xvars>>

NextSync ==
    \/ PlayPause
    \/ SliderPressed
    \/ SliderReleased
    \/ \E position \in ReportPositions : MediaReport(position)
    \/ DeliverEvent
    \/ \E due \in BOOLEAN : VideoTop(due)
    \/ SeekSet
    \/ \E outcome \in {"ok", "fail"} : SeekRead(outcome, MaxQueued)
    \/ SeekClear
    \/ \E outcome \in {"ok", "fail"} : Cadence(outcome, MaxQueued)

\* a session with audio and its worker, from the opening of the file, within
\* one seek cooldown
SpecSync == Init /\ [][NextSync]_vars

-----------------------------------------------------------------------------
\* Properties of the seek targets (checked under SpecSync)

\* C21 (as claimed): every index the seek handler repositions the decoder to
\* is a frame of the video, 0 <= index <= total_frames - 1, whichever caller
\* (scrubber, play, audio position report) requested the seek.
C21_SeekTargetsInRange ==
    [][vpc = "seek_set" => cap_pos' \in 0..(TotalFrames - 1)]_vars

-----------------------------------------------------------------------------
\* More properties of the video worker's failure policy (checked under SpecVideo)

\* C22 (as claimed): every production step of the worker (the read of the seek
\* handler or of a cadence step) that produces no frame adds one to the failure
\* counter, and every one that produces a frame resets the counter to 0.
C22_CountsEveryFailure ==
    [][(vpc \in {"seek_read", "cadence"} /\ vpc' # vpc) =>
          IF Len(pending') > Len(pending)
          THEN error_count' = 0
          ELSE error_count' = error_count + 1]_vars

-----------------------------------------------------------------------------
\* Properties of the reported positions (checked under SpecChannel, where no
\* seek is issued)

\* C27 (as claimed): every position carried by a queued position_changed
\* event is a frame index of the video, and so is the worker's current_frame
\* whenever decode_lock is free.
C27_PositionsInRange ==
    /\ \A i \in 1..Len(pending) : pending[i].pos \in 0..(TotalFrames - 1)
    /\ ~decode_lock => current_frame \in 0..(TotalFrames - 1)

-----------------------------------------------------------------------------
\* Properties of a halted video worker (checked under SpecVideo)

\* process_video has returned on MAX_ERRORS at least once: it is halted now, or
\* the queued invocation, which is only taken after such a return, was taken
HasHalted == vpc = "halted" \/ runs_queued = 0

\* C28 (as claimed): leaving the loop on exhausted retries leaves running
\* as it was (true unless stop() was called), and from then on no frame is produced any more whatever play() or
\* seek() is called, and a seek request pending or set is never cleared.
C28_HaltedNeverProduces ==
    /\ [][(vpc # "halted" /\ vpc' = "halted") => vw_running' = vw_running]_vars
    /\ [][HasHalted => (/\ Len(pending') <= Len(pending)
                        /\ seek_requested => seek_requested')]_vars

-----------------------------------------------------------------------------
\* Properties of the two playing flags (checked under SpecSync)

\* no slot of the session is running (they run to completion), the scrubber is
\* not held, the worker is between two steps with no seek to serve, and every
\* event it emitted has been delivered
Quiescent ==
    /\ ~aborted
    /\ ~slider_being_dragged
    /\ ~seek_requested
    /\ vpc \in {"top", "halted"}
    /\ pending = <<>>

\* C25 (as claimed): in every quiescent state UploadedVideo.playing equals
\* VideoWorker.playing, also after the worker has stopped playing by itself
\* (end of stream, exhausted retries).
C25_PlayingFlagsAgree == Quiescent => (s_playing <=> vw_playing)

-----------------------------------------------------------------------------
\* Properties of the pacing (checked under SpecPacing)

\* C24 (as claimed): every successful cadence step advances the due-time by
\* one frame period from the previous due-time, so after n successful steps
\* since the pacing was reset the due-time is start + n * period, whatever the
\* latency of the steps.
C24_DueTimeFromPreviousDue ==
    /\ [](next_frame_time = pace_start + paced_steps * PeriodTicks)
    /\ [][paced_steps' = paced_steps + 1 =>
            next_frame_time' = next_frame_time + PeriodTicks]_vars

-----------------------------------------------------------------------------
\* Properties of a seek and its audio report (checked under SpecRoundTrip)

\* C26 (as claimed): the audio report of the position that seek(f) set
\* converts back to an index within the threshold of f: it makes no
\* corrective seek, for every frame f of the file and every whole rate.
C26_SeekStableUnderSync == rt_seeks # -1 => rt_seeks = 0

-----------------------------------------------------------------------------
\* Properties of the capture loop's retries (checked under SpecCapture)

\* C23 (as claimed): after MAX_ERRORS capture attempts in a row have failed,
\* the capture source makes no further attempt.
C23_HaltsAfterThreeFailures ==
    [][fail_streak >= MAX_ERRORS => attempts' <= attempts]_vars

-----------------------------------------------------------------------------
\* Properties of starting capture sessions (checked under SpecRestart)

\* C30: at most one capture session exists. A worker and its thread are only
\* created when no capture thread exists (start_screen_sharing has stopped and
\* joined, or terminated, the thread of the session that was open), and a
\* capture thread only exists for the worker the application refers to.
C30_OneCaptureSession ==
    /\ [][(mpc' = "starting" /\ mpc # "starting") => cpc = "not_started"]_vars
    /\ [](cpc # "not_started" => sc_worker # "none")

\* C30 witness: a second session has been created over a first one that was
\* capturing, and its thread is in its loop.
C30_Witness ==
    /\ sessions = 2
    /\ sc_worker # "none"
    /\ cpc = "top"
    /\ mpc = "idle"
    /\ sc_capturing

-----------------------------------------------------------------------------
\* Properties of closing the application (checked under SpecClose)

\* every session closeEvent has seen so far
ClosedSessions ==
    {uploaded_items[i] : i \in 1..Len(uploaded_items)} \cup {removed[i] : i \in 1..Len(removed)}

\* C29: session cleanup is idempotent. No session's worker is stopped twice
\* and no session's decoder handle is released twice; a cleanup() call on a
\* session that was cleaned up before changes nothing in it; and once
\* closeEvent is over every session was cleaned up (twice: by closeEvent's
\* loop and by Canvas.cleanup, no call raising) and taken off the canvas.
C29_CleanupIdempotent ==
    /\ [](\A s \in ClosedSessions : s.stops <= 1 /\ s.releases <= 1)
    /\ [][\A i \in 1..Len(uploaded_items) :
            (/\ i <= Len(uploaded_items')
             /\ uploaded_items[i].cleanups >= 1
             /\ uploaded_items'[i].cleanups = uploaded_items[i].cleanups + 1)
                => uploaded_items'[i] = [uploaded_items[i] EXCEPT !.cleanups = @ + 1]]_vars
    /\ [](kpc = "closed" =>
            /\ uploaded_items = <<>>
            /\ cleanup_done
            /\ \A i \in 1..Len(removed) :
                  /\ removed[i].cleanups = 2
                  /\ removed[i].stops = 1 /\ removed[i].releases = 1
                  /\ removed[i].worker = "none" /\ removed[i].cap = "none"
                  /\ removed[i].thread = "none" /\ removed[i].media_player = "none"
                  /\ ~removed[i].playing)

\* C29 witness: the application was closed with two video sessions on the
\* canvas, one of them playing and one without audio; both went through
\* cleanup twice.
C29_Witness ==
    /\ kpc = "closed"
    /\ Len(removed) >= 2
    /\ removed[1].cleanups = 2 /\ removed[2].cleanups = 2

====
